---- MODULE Spec2Model ----
(***************************************************************************)
(* PocketQuant2: the persistent bar store (scraper/utils/build_db.py),     *)
(* the cache-aware fetch orchestrator (scraper/setup.py) and the yfinance  *)
(* scraper client (scraper/api_clients/YFinance.py).                       *)
(*                                                                         *)
(* Time.  A timestamp is a natural number of ticks, TicksPerDay ticks to   *)
(* a day; tick 0 of a day is midnight.  Bars carry whole-tick, non-null    *)
(* datetime64 timestamps (clean_data drops NaT rows and localises).        *)
(*                                                                         *)
(* Strings.  The store keeps DATE as TEXT and SQLite compares TEXT byte by *)
(* byte, so timestamps in the store are sequences of characters (naturals  *)
(* in collating order).  "YYYY-MM-DD" is one zero-padded field, modelled   *)
(* as one character; " HH:MM:SS" is a space followed by one character.     *)
(***************************************************************************)
EXTENDS Bags, FiniteSets, Integers, Naturals, Sequences, TLC

VARIABLES db, hist, sent, op, nwrites, setup, run, nruns, scraper, fb, ab, odb

vars == <<db, hist, sent, op, nwrites, setup, run, nruns, scraper, fb, ab, odb>>

\* the state of the components an operation of the store or of the pipeline
\* never touches
aux == <<scraper, fb, ab, odb>>

----
\* Bounds of the model
MaxDay == 2
TicksPerDay == 2
MaxBatch == 2
MaxWrites == 2
MaxRuns == 2

\* Python None where a date string is expected (an empty string is falsy too)
None == <<>>
\* a frame without an INTERVAL column
NoCol == "none"

Days == 1..MaxDay
Ticks == 0..(TicksPerDay - 1)
Times == {d * TicksPerDay + k : d \in Days, k \in Ticks}
Vals == {1, 2}
Intervals == {"1d", "1h"}
Tickers == {"aapl", "AAPL", "MSFT"}

DayOf(t) == t \div TicksPerDay
TickOf(t) == t % TicksPerDay

----
\* Text: characters, formatting, parsing, comparison

SP == 0
Chr(k) == k + 1
Ord(c) == c - 1

\* a format that drops the time of day: "%Y-%m-%d"
StrfDateOnly(t) == <<Chr(DayOf(t))>>

\* "%Y-%m-%d %H:%M:%S" of a datetime64 value
StrfTime(t) == <<Chr(DayOf(t)), SP, Chr(TickOf(t))>>

\* a date given as "YYYY-MM-DD"
DateStr(d) == <<Chr(d)>>

\* pd.to_datetime of a stored or configured string
ToDatetime(s) ==
    IF Len(s) = 1 THEN Ord(s[1]) * TicksPerDay
    ELSE Ord(s[1]) * TicksPerDay + Ord(s[3])

RECURSIVE TextLess(_, _)
\* SQLite BINARY collation: memcmp, a proper prefix sorts first
TextLess(a, b) ==
    IF b = <<>> THEN FALSE
    ELSE IF a = <<>> THEN TRUE
    ELSE IF a[1] # b[1] THEN a[1] < b[1]
    ELSE TextLess(Tail(a), Tail(b))

TextLeq(a, b) == a = b \/ TextLess(a, b)

\* str.upper() on the tickers of the model
\* the table identifier taken as it was typed
KeepCase(ticker) == ticker

Upper(ticker) == IF ticker = "aapl" THEN "AAPL" ELSE ticker

TableNames == {Upper(t) : t \in Tickers}

----
\* The store: one table per upper-cased ticker, a bag of rows

NoTable == [exists |-> FALSE, rows |-> EmptyBag]

\* a key made of the timestamp alone
SameDate(r, s) == r.DATE = s.DATE

SameKey(r, s) == r.DATE = s.DATE /\ r.INTERVAL = s.INTERVAL

\* a plain INSERT into a table without the primary key
InsertPlain(rows, r) == rows (+) SetToBag({r})

\* INSERT OR IGNORE: the row already stored under the key wins
InsertOrIgnore(rows, r) ==
    IF \E x \in DOMAIN rows : SameKey(x, r) THEN rows
    ELSE rows (+) SetToBag({r})

\* INSERT OR REPLACE under PRIMARY KEY(DATE, INTERVAL)
InsertOrReplace(rows, r) ==
    LET keep == {x \in DOMAIN rows : ~SameKey(x, r)}
    IN  [x \in keep |-> rows[x]] (+) SetToBag({r})

RECURSIVE ExecuteMany(_, _, _)
\* cursor.executemany over df.values.tolist(), in row order
ExecuteMany(rows, dfrows, iv) ==
    IF dfrows = <<>> THEN rows
    ELSE ExecuteMany(
            InsertOrReplace(rows, [DATE |-> StrfTime(Head(dfrows).DATE),
                                   INTERVAL |-> iv,
                                   VAL |-> Head(dfrows).VAL]),
            Tail(dfrows), iv)

\* the INTERVAL column of the frame wins over the interval argument
RowInterval(df, interval) == IF df.icol = NoCol THEN interval ELSE df.icol

\* a connect that bootstraps a table for every known instrument
ConnectCreatingTables(d) == [n \in DOMAIN d |-> [d[n] EXCEPT !.exists = TRUE]]

\* sqlite3.connect opens (or creates) the database file; no table is touched
create_or_connect_db(d) == d

RECURSIVE WriteFrames(_, _, _)
\* the loop over data_dict, an ordered mapping: a sequence of [ticker, df]
WriteFrames(d, data_dict, interval) ==
    IF data_dict = <<>> THEN d
    ELSE LET e == Head(data_dict)
             tn == Upper(e.ticker)
             new == [exists |-> TRUE,
                     rows |-> ExecuteMany(d[tn].rows, e.df.rows,
                                          RowInterval(e.df, interval))]
         IN  WriteFrames([d EXCEPT ![tn] = new], Tail(data_dict), interval)

write_data_to_db(d, data_dict, interval) ==
    WriteFrames(create_or_connect_db(d), data_dict, interval)

\* the rows of a table whatever their interval
AllIntervals(tbl, interval) == DOMAIN tbl.rows

\* rows of one interval
OfInterval(tbl, interval) == {r \in DOMAIN tbl.rows : r.INTERVAL = interval}

TextMin(S) == CHOOSE s \in S : \A x \in S : TextLeq(s, x)
TextMax(S) == CHOOSE s \in S : \A x \in S : TextLeq(x, s)

get_ticker_date_range(d, ticker, interval) ==
    LET tbl == create_or_connect_db(d)[Upper(ticker)]
        dates == {r.DATE : r \in OfInterval(tbl, interval)}
    IN  IF ~tbl.exists THEN <<None, None>>
        ELSE IF dates = {} THEN <<None, None>>
        ELSE <<TextMin(dates), TextMax(dates)>>

\* the row as pandas returns it: DATE parsed back to a datetime
ReadRow(r) == [DATE |-> ToDatetime(r.DATE), INTERVAL |-> r.INTERVAL, VAL |-> r.VAL]

read_by_date(d, ticker, start_date, end_date, interval) ==
    LET tbl == create_or_connect_db(d)[Upper(ticker)]
        sel == {r \in OfInterval(tbl, interval) :
                    /\ (start_date # None => TextLeq(start_date, r.DATE))
                    /\ (end_date # None => TextLeq(r.DATE, end_date))}
    IN  IF ~tbl.exists THEN EmptyBag
        ELSE [x \in {ReadRow(r) : r \in sel} |->
                 BagCardinality([r \in {y \in sel : ReadRow(y) = x} |-> tbl.rows[r]])]

----
\* History of writes (what was asked of the store, in timestamps)

\* per key, the value of the most recent write (no element: never written)
Keys == Times \X Intervals
NoHist == [k \in Keys |-> {}]

RECURSIVE HistRows(_, _, _)
HistRows(h, dfrows, iv) ==
    IF dfrows = <<>> THEN h
    ELSE HistRows([h EXCEPT ![<<Head(dfrows).DATE, iv>>] = {Head(dfrows).VAL}],
                  Tail(dfrows), iv)

RECURSIVE HistWrite(_, _, _)
HistWrite(h, data_dict, interval) ==
    IF data_dict = <<>> THEN h
    ELSE LET e == Head(data_dict)
             tn == Upper(e.ticker)
         IN  HistWrite([h EXCEPT ![tn] = HistRows(h[tn], e.df.rows,
                                                  RowInterval(e.df, interval))],
                       Tail(data_dict), interval)

\* every row ever handed to the store, per table
RECURSIVE SentWrite(_, _, _)
SentWrite(st, data_dict, interval) ==
    IF data_dict = <<>> THEN st
    ELSE LET e == Head(data_dict)
             tn == Upper(e.ticker)
             iv == RowInterval(e.df, interval)
             new == {[DATE |-> e.df.rows[i].DATE, INTERVAL |-> iv,
                      VAL |-> e.df.rows[i].VAL] : i \in 1..Len(e.df.rows)}
         IN  SentWrite([st EXCEPT ![tn] = @ \cup new], Tail(data_dict), interval)

----
\* Inputs

BarRows == [DATE : Times, VAL : Vals]
RowSeqs == UNION {[1..n -> BarRows] : n \in 0..MaxBatch}
Frames == [rows : RowSeqs, icol : {NoCol} \cup Intervals]
DateArgs == {None} \cup {DateStr(d) : d \in Days}

NoOp == [name |-> "init"]
NoSetup == [made |-> FALSE]
NoRun == [done |-> FALSE]
NoScraper == [pc |-> "idle"]
NoFeatures == [name |-> "init"]
\* options_data.db before anything is written: no table, no call made
NoOptionsDb ==
    [tables |-> [n \in TableNames |-> [exists |-> FALSE, sym |-> FALSE, rows |-> EmptyBag]],
     op |-> [name |-> "init"], nwrites |-> 0]

\* Backtester.__init__: no portfolio, self.data the empty DataFrame of
\* BaseSetup.__init__
NoEstimate ==
    [name |-> "init", portfolio |-> FALSE, data |-> "DataFrame",
     ok_runs |-> 0, failed_runs |-> 0, raised |-> FALSE]

Init ==
    /\ db = [n \in TableNames |-> NoTable]
    /\ hist = [n \in TableNames |-> NoHist]
    /\ sent = [n \in TableNames |-> {}]
    /\ op = NoOp
    /\ nwrites = 0
    /\ setup = NoSetup
    /\ run = NoRun
    /\ nruns = 0
    /\ scraper = NoScraper
    /\ fb = NoFeatures
    /\ ab = NoEstimate
    /\ odb = NoOptionsDb

\* a query of the store has been made.  A session of the store is a
\* sequence of writes followed by one query: a query changes nothing, so
\* whatever another query or a later write would see is seen this way
IsQuery == op.name \in {"range", "read"}

\* the tickers the driver writes directly; MSFT is left to the pipeline
WriteTickers == {"aapl", "AAPL"}

\* interval="1d" in the signatures of build_db.py
DefaultInterval == "1d"

\* every caller that passes a frame with its own INTERVAL column leaves the
\* interval argument at its default
IntervalArgs(df) == IF df.icol = NoCol THEN Intervals ELSE {DefaultInterval}

\* a direct call of write_data_to_db with one frame.  op records the size
\* of the frame, the keys of the frame the table already held, and the
\* store as the same call leaves it when it is made a second time.
Write(ticker, df, interval) ==
    /\ nwrites < MaxWrites
    /\ ~IsQuery
    /\ \E dd \in {<<[ticker |-> ticker, df |-> df]>>} :
       \E once \in {write_data_to_db(db, dd, interval)} :
       \E iv \in {RowInterval(df, interval)} :
           /\ db' = once
           /\ hist' = HistWrite(hist, dd, interval)
           /\ sent' = SentWrite(sent, dd, interval)
           /\ op' = [name |-> "write", ticker |-> ticker, table |-> Upper(ticker),
                     interval |-> iv, arg |-> interval, n |-> Len(df.rows),
                     hits |-> Cardinality({i \in 1..Len(df.rows) :
                                StrfTime(df.rows[i].DATE) \in
                                    {r.DATE : r \in OfInterval(db[Upper(ticker)], iv)}}),
                     again |-> write_data_to_db(once, dd, interval)]
    /\ nwrites' = nwrites + 1
    /\ UNCHANGED <<setup, run, nruns>>
    /\ UNCHANGED aux

GetRange(ticker, interval) ==
    /\ ~IsQuery
    /\ op' = [name |-> "range", ticker |-> ticker, interval |-> interval,
              result |-> get_ticker_date_range(db, ticker, interval)]
    /\ db' = create_or_connect_db(db)
    /\ UNCHANGED <<hist, sent, nwrites, setup, run, nruns>>
    /\ UNCHANGED aux

ReadByDate(ticker, start_date, end_date, interval) ==
    /\ ~IsQuery
    /\ op' = [name |-> "read", ticker |-> ticker, start_date |-> start_date,
              end_date |-> end_date, interval |-> interval,
              result |-> read_by_date(db, ticker, start_date, end_date, interval)]
    /\ db' = create_or_connect_db(db)
    /\ UNCHANGED <<hist, sent, nwrites, setup, run, nruns>>
    /\ UNCHANGED aux

Next ==
    \/ \E t \in WriteTickers, df \in Frames : \E i \in IntervalArgs(df) : Write(t, df, i)
    \/ \E t \in Tickers, i \in Intervals : GetRange(t, i)
    \/ \E t \in Tickers, s \in DateArgs, e \in DateArgs, i \in Intervals :
            ReadByDate(t, s, e, i)

Spec == Init /\ [][Next]_vars

----
\* The yfinance scraper client

\* retries = 3 in StockScraper.fetch_data
Retries == 3

\* retries = 5 in StockScraperAV.fetch_data
RetriesAV == 5

\* the bars of one day: one at midnight for daily bars, one per tick otherwise
DayRows(d, v, interval) ==
    IF interval = "1d" THEN <<[DATE |-> d * TicksPerDay, VAL |-> v]>>
    ELSE [k \in 1..TicksPerDay |-> [DATE |-> d * TicksPerDay + (k - 1), VAL |-> v]]

RECURSIVE SourceRows(_, _, _, _)
\* what the external source returns for one instrument: the bars of the days
\* lo..hi in time order (no rows when lo > hi)
SourceRows(lo, hi, v, interval) ==
    IF lo > hi THEN <<>>
    ELSE DayRows(lo, v, interval) \o SourceRows(lo + 1, hi, v, interval)

\* one instrument's answers: the first `raises` download attempts raise, the
\* next one (if the loop gets that far) returns the bars of days lo..hi
Responses ==
    {[raises |-> Retries, lo |-> 1, hi |-> 0]} \cup
    {[raises |-> n, lo |-> 1, hi |-> 0] : n \in 0..(Retries - 1)} \cup
    {[raises |-> 0, lo |-> w[1], hi |-> w[2]] :
        w \in {x \in Days \X Days : x[1] <= x[2]}}

\* the while loop of fetch_data for one ticker: the number of downloads made
Attempts(r) == IF r.raises >= Retries THEN Retries ELSE r.raises + 1

\* df.empty of the frame an attempt returned
Empty(r) == r.lo > r.hi

\* self.data[ticker] set for whatever frame an attempt returned
StoredAnyFrame(r) == r.raises < Retries

\* ... and whether self.data[ticker] is set: an attempt returned, not empty
Stored(r) == r.raises < Retries /\ ~Empty(r)

RECURSIVE fetch_data(_, _, _)
\* StockScraper.fetch_data: self.data as a sequence of [ticker, df]
fetch_data(tickers, interval, resp) ==
    IF tickers = <<>> THEN <<>>
    ELSE LET t == Head(tickers)
             rest == fetch_data(Tail(tickers), interval, resp)
             rows == SourceRows(resp[t].lo, resp[t].hi, 1, interval)
         IN  IF Stored(resp[t])
             THEN <<[ticker |-> t, df |-> [rows |-> rows, icol |-> NoCol]]>> \o rest
             ELSE rest

RECURSIVE DropDuplicates(_)
\* df.drop_duplicates(): the first of identical rows is kept
DropDuplicates(rows) ==
    IF rows = <<>> THEN <<>>
    ELSE LET init == DropDuplicates(SubSeq(rows, 1, Len(rows) - 1))
             last == rows[Len(rows)]
         IN  IF \E i \in 1..Len(init) : init[i] = last THEN init
             ELSE Append(init, last)

\* StockScraper.clean_data: duplicates dropped, INTERVAL column added
clean_data(data, interval) ==
    [i \in 1..Len(data) |->
        [ticker |-> data[i].ticker,
         df |-> [rows |-> DropDuplicates(data[i].df.rows), icol |-> interval]]]

----
\* The fetch orchestrator

NoTime == -1

\* the decision without the strictness of the one-day buffer
NeedsFetchAtBuffer(d, cfg, ticker, now) ==
    LET cov == get_ticker_date_range(d, ticker, DefaultInterval)
    IN  IF cov[1] = None \/ cov[2] = None THEN TRUE
        ELSE LET db_min == ToDatetime(cov[1])
                 db_max == ToDatetime(cov[2])
                 req_start == IF cfg.start_date # None
                              THEN ToDatetime(cfg.start_date) ELSE NoTime
                 req_end == IF cfg.end_date # None
                            THEN ToDatetime(cfg.end_date) ELSE now
             IN  IF req_start # NoTime /\ req_start < db_min THEN TRUE
                 ELSE IF req_end >= db_max + TicksPerDay THEN TRUE
                 ELSE FALSE

\* the per-ticker decision of _fetch_data: data_needed
NeedsFetch(d, cfg, ticker, now) ==
    LET cov == get_ticker_date_range(d, ticker, DefaultInterval)
    IN  IF cov[1] = None \/ cov[2] = None THEN TRUE
        ELSE LET db_min == ToDatetime(cov[1])
                 db_max == ToDatetime(cov[2])
                 req_start == IF cfg.start_date # None
                              THEN ToDatetime(cfg.start_date) ELSE NoTime
                 req_end == IF cfg.end_date # None
                            THEN ToDatetime(cfg.end_date) ELSE now
             IN  IF req_start # NoTime /\ req_start < db_min THEN TRUE
                 ELSE IF req_end > db_max + TicksPerDay THEN TRUE
                 ELSE FALSE

RECURSIVE TickersToFetch(_, _, _, _)
TickersToFetch(d, cfg, tickers, now) ==
    IF tickers = <<>> THEN <<>>
    ELSE IF NeedsFetch(d, cfg, Head(tickers), now)
         THEN <<Head(tickers)>> \o TickersToFetch(d, cfg, Tail(tickers), now)
         ELSE TickersToFetch(d, cfg, Tail(tickers), now)

\* a scraper constructed with every configured ticker
AllTickers(cfg, tickers_to_fetch) == cfg.tickers

\* the tickers the scraper is constructed with
ScraperTickers(cfg, tickers_to_fetch) == tickers_to_fetch

Range(seq) == {seq[i] : i \in 1..Len(seq)}

\* an in-memory frame as a set of rows
FrameRows(df) ==
    {[DATE |-> df.rows[i].DATE, INTERVAL |-> df.icol, VAL |-> df.rows[i].VAL] :
        i \in 1..Len(df.rows)}

\* StockScraperAV.clean_data: duplicates dropped; no INTERVAL column is added
clean_data_av(data) ==
    [i \in 1..Len(data) |->
        [ticker |-> data[i].ticker,
         df |-> [rows |-> DropDuplicates(data[i].df.rows), icol |-> NoCol]]]

\* the while loop of StockScraperAV.fetch_data for one ticker
AttemptsAV(r) == IF r.raises >= RetriesAV THEN RetriesAV ELSE r.raises + 1

\* `not self.api_key`
NoKey == ""

SupportedTypes == {"yfinance", "alphavantage"}

\* the branches of _fetch_data that construct the scraper raise ValueError
ScraperConfigError(cfg) ==
    \/ cfg.scraper_type \notin SupportedTypes
    \/ cfg.scraper_type = "alphavantage" /\ cfg.api_key = NoKey

\* what goes wrong in the store during write_data_to_db: nothing, or the
\* connection cannot be opened, or the INSERT for the frame at position `at`
\* is refused (the columns of the frame do not fit the table)
NoFault == [stage |-> "none", at |-> 0]

FaultHits(fault, data_dict) ==
    \/ fault.stage = "connect"
    \/ fault.stage = "insert" /\ fault.at <= Len(data_dict)

\* one commit for the whole batch: a store error leaves nothing of it
CommittedPerBatch(fault, data_dict) ==
    IF FaultHits(fault, data_dict) THEN <<>> ELSE data_dict

\* the frames write_data_to_db commits before the store error stops it
Committed(fault, data_dict) ==
    IF fault.stage = "connect" THEN <<>>
    ELSE IF fault.stage = "insert" /\ fault.at <= Len(data_dict)
         THEN SubSeq(data_dict, 1, fault.at - 1)
         ELSE data_dict

\* write_data_to_db under a store error: the frames before the failing one
\* are committed, the table of the failing frame is created (CREATE TABLE
\* is not part of the transaction) and none of its rows is kept
write_data_to_db_failing(d, data_dict, interval, fault) ==
    IF fault.stage = "connect" THEN d
    ELSE LET done == WriteFrames(create_or_connect_db(d),
                                 Committed(fault, data_dict), interval)
         IN  [done EXCEPT ![Upper(data_dict[fault.at].ticker)].exists = TRUE]

\* an error of _fetch_data is dropped
SwallowError(e) == "none"

\* run_pipeline and _fetch_data have no handler: an error raised on the
\* way is the error of the call
Propagate(e) == e

\* StockScraper.fetch_options: the tickers that end with an options chain
\* (an exception for one ticker is caught and logged)
fetch_options(tickers, opt_fetch) == {t \in Range(tickers) : opt_fetch[t] = "chain"}

\* the options block of _fetch_data: whether the fetch and the persist were
\* run, for which tickers, what was written, and the error that escapes.
\* write_options_to_db returns at once without data, opens the store
\* outside any handler, and catches the errors of each ticker's table.
OptionsBlock(cfg, env) ==
    IF ~cfg.include_options \/ cfg.scraper_type # "yfinance"
    THEN [fetched |-> {}, persist |-> FALSE, written |-> {}, error |-> "none"]
    ELSE LET options_data == fetch_options(cfg.tickers, env.opt_fetch)
         IN  [fetched |-> Range(cfg.tickers),
              persist |-> TRUE,
              written |-> IF env.opt_write = "ok" THEN options_data ELSE {},
              error |-> IF options_data # {} /\ env.opt_write = "connect_error"
                        THEN "OptionsStoreError" ELSE "none"]

NoOptions == [fetched |-> {}, persist |-> FALSE, written |-> {}, error |-> "none"]

\* BaseSetup._fetch_data: the store it leaves and what it computed on the way
BaseSetup_fetch_data(d, cfg, now, resp, env) ==
    LET tf == TickersToFetch(d, cfg, cfg.tickers, now)
        arg == ScraperTickers(cfg, tf)
        readers == Range(cfg.tickers) \ Range(tf)
        config_error == tf # <<>> /\ ScraperConfigError(cfg)
        fetches == tf # <<>> /\ ~config_error
        fetched == IF ~fetches THEN <<>>
                   ELSE IF cfg.scraper_type = "alphavantage"
                        THEN clean_data_av(fetch_data(arg, cfg.interval, resp))
                        ELSE clean_data(fetch_data(arg, cfg.interval, resp), cfg.interval)
        store_error == fetches /\ FaultHits(env.write_fault, fetched)
        written == IF fetches THEN Committed(env.write_fault, fetched) ELSE <<>>
        options == IF config_error \/ store_error THEN NoOptions
                   ELSE OptionsBlock(cfg, env)
        api == {fetched[i].ticker : i \in 1..Len(fetched)}
        frame(t) == fetched[CHOOSE i \in 1..Len(fetched) : fetched[i].ticker = t].df
    IN  [db |-> IF ~fetches THEN d
                ELSE IF store_error
                     THEN write_data_to_db_failing(d, fetched, DefaultInterval, env.write_fault)
                     ELSE write_data_to_db(d, fetched, DefaultInterval),
         error |-> IF config_error THEN "ValueError"
                   ELSE IF store_error THEN "StoreError"
                   ELSE options.error,
         coverage_queries |-> Len(cfg.tickers),
         tickers_to_fetch |-> tf,
         fetch_calls |-> IF fetches THEN 1 ELSE 0,
         fetch_arg |-> IF fetches THEN arg ELSE <<>>,
         attempts |-> IF ~fetches THEN <<>>
                      ELSE [t \in Range(arg) |->
                              IF cfg.scraper_type = "alphavantage"
                              THEN AttemptsAV(resp[t]) ELSE Attempts(resp[t])],
         scraper_data |-> fetched,
         written |-> written,
         options |-> options,
         read_from_db |-> readers,
         data_dict |-> [t \in readers \cup api |->
                          IF t \in api
                          THEN [src |-> "api", rows |-> FrameRows(frame(t))]
                          ELSE [src |-> "db",
                                rows |-> BagToSet(read_by_date(d, t, cfg.start_date,
                                            cfg.end_date, DefaultInterval))]]]

\* BaseSetup._build_features: the tickers that get a feature table (a ticker
\* with an empty frame is skipped)
BaseSetup_build_features(data) == {t \in DOMAIN data : data[t].rows # {}}

\* the requests of the model: a start date no later than the end date
DateRanges ==
    {w \in ({None} \cup {DateStr(d) : d \in Days})
           \X ({None} \cup {DateStr(d) : d \in 1..(MaxDay + 1)}) :
        (w[1] # None /\ w[2] # None) => TextLeq(w[1], w[2])}

TickerLists == {<<"AAPL", "MSFT">>}

Configs ==
    {[made |-> TRUE, tickers |-> tl, start_date |-> w[1], end_date |-> w[2],
      interval |-> iv, scraper_type |-> "yfinance", api_key |-> NoKey,
      include_options |-> FALSE] :
        tl \in TickerLists, w \in DateRanges, iv \in Intervals}

\* a run in which the store and the options source work
CalmEnv ==
    [write_fault |-> NoFault, opt_fetch |-> [t \in {"AAPL", "MSFT"} |-> "chain"],
     opt_write |-> "ok"]

\* pd.Timestamp.now() when no end date is configured: some time of the day
\* after the last day the source has bars for
NowTimes(cfg) ==
    IF cfg.end_date # None THEN {NoTime}
    ELSE {(MaxDay + 1) * TicksPerDay + k : k \in Ticks}

\* BaseSetup.__init__
Construct(cfg) ==
    /\ nruns < MaxRuns
    /\ setup' = cfg
    /\ run' = NoRun
    /\ UNCHANGED <<db, hist, sent, op, nwrites, nruns>>
    /\ UNCHANGED aux

\* BaseSetup.run_pipeline: _fetch_data, then _build_features.  An error of
\* _fetch_data ends the call: nothing is returned and no feature is built.
RunPipeline(now, resp, env) ==
    /\ setup.made
    /\ nruns < MaxRuns
    /\ \E r \in {BaseSetup_fetch_data(db, setup, now, resp, env)} :
       \E e \in {Propagate(r.error)} :
       \E f \in {IF e = "none" THEN BaseSetup_build_features(r.data_dict) ELSE {}} :
           /\ db' = r.db
           /\ hist' = HistWrite(hist, r.written, DefaultInterval)
           /\ sent' = SentWrite(sent, r.written, DefaultInterval)
           /\ run' = [done |-> TRUE, now |-> now, resp |-> resp,
                      attempts |-> r.attempts,
                      tickers_to_fetch |-> r.tickers_to_fetch,
                      fetch_calls |-> r.fetch_calls,
                      fetch_arg |-> r.fetch_arg,
                      batch |-> [i \in 1..Len(r.scraper_data) |->
                                    r.scraper_data[i].ticker],
                      scraper_data |-> {r.scraper_data[i].ticker :
                                            i \in 1..Len(r.scraper_data)},
                      read_from_db |-> r.read_from_db,
                      data |-> r.data_dict,
                      features |-> f,
                      raised |-> e # "none",
                      error |-> e,
                      fetch_error |-> r.error,
                      coverage_queries |-> r.coverage_queries,
                      env |-> env,
                      options |-> r.options]
    /\ nruns' = nruns + 1
    /\ UNCHANGED <<op, nwrites, setup>>
    /\ UNCHANGED aux

\* the answers of the external source to the scraper of this run
RespFor(cfg, d, now) ==
    LET tf == TickersToFetch(d, cfg, cfg.tickers, now)
    IN  [IF tf = <<>> THEN {} ELSE Range(ScraperTickers(cfg, tf)) -> Responses]

PipeNext ==
    \/ \E cfg \in Configs : Construct(cfg)
    \/ /\ setup.made
       /\ \E now \in NowTimes(setup) : \E resp \in RespFor(setup, db, now) :
            RunPipeline(now, resp, CalmEnv)

PipeSpec == Init /\ [][PipeNext]_vars

----
\* The pipeline when things go wrong: configurations of every scraper type,
\* with and without an API key and the options opt-in, store errors during
\* the write of the fetched bars, and options sources and stores that fail

ScraperTypeArgs == SupportedTypes \cup {"quandl"}

FaultConfigs ==
    {[made |-> TRUE, tickers |-> tl, start_date |-> DateStr(1),
      end_date |-> DateStr(MaxDay), interval |-> DefaultInterval,
      scraper_type |-> st, api_key |-> k, include_options |-> o] :
        tl \in TickerLists, st \in ScraperTypeArgs, k \in {NoKey, "KEY"}, o \in BOOLEAN}

\* one instrument's answers: every attempt raises, or the first one returns
\* an empty frame, or the bars of every day
FaultResponses ==
    {[raises |-> RetriesAV, lo |-> 1, hi |-> 0], [raises |-> 0, lo |-> 1, hi |-> 0],
     [raises |-> 0, lo |-> 1, hi |-> MaxDay]}

WriteFaults ==
    {NoFault, [stage |-> "connect", at |-> 0]} \cup
    {[stage |-> "insert", at |-> k] : k \in 1..2}

\* per ticker, fetch_options ends with a chain, finds no expirations, or
\* raises: every ticker gets a chain, or only MSFT while AAPL raises, or none
OptionFetches ==
    {[t \in {"AAPL", "MSFT"} |-> "chain"],
     [t \in {"AAPL", "MSFT"} |-> IF t = "AAPL" THEN "raise" ELSE "chain"],
     [t \in {"AAPL", "MSFT"} |-> "none"]}

\* write_options_to_db works, or fails inside the handler of each ticker's
\* table, or cannot open the options store
OptionWrites == {"ok", "table_error", "connect_error"}

\* the environments that differ for a configuration
Envs(cfg) ==
    LET opts == cfg.include_options /\ cfg.scraper_type = "yfinance"
    IN  {[write_fault |-> w, opt_fetch |-> f, opt_write |-> ow] :
            w \in WriteFaults,
            f \in IF opts THEN OptionFetches ELSE {CalmEnv.opt_fetch},
            ow \in IF opts THEN OptionWrites ELSE {CalmEnv.opt_write}}

FaultRespFor(cfg, d, now) ==
    LET tf == TickersToFetch(d, cfg, cfg.tickers, now)
    IN  [IF tf = <<>> \/ ScraperConfigError(cfg) THEN {}
         ELSE Range(ScraperTickers(cfg, tf)) -> FaultResponses]

PipeFaultNext ==
    \/ \E cfg \in FaultConfigs : Construct(cfg)
    \/ /\ setup.made
       /\ \E now \in NowTimes(setup) : \E resp \in FaultRespFor(setup, db, now) :
          \E env \in Envs(setup) : RunPipeline(now, resp, env)

PipeFaultSpec == Init /\ [][PipeFaultNext]_vars

----
\* The retry loop of fetch_data, one download attempt at a time
\* (StockScraper of YFinance.py and StockScraperAV of AlphaVantage.py)

\* the longest ticker list handed to a scraper
MaxFetchTickers == 3

\* backoff = 12 in StockScraperAV.fetch_data; backoff = 1 in
\* StockScraper.fetch_data
Backoff == 1
BackoffAV == 12

\* StockScraperAV.RATE_LIMIT requests in any window of 60 seconds
RATE_LIMIT == 5
ThrottleWindow == 60

ScraperTypes == {"yfinance", "alphavantage"}

RetriesOf(kind) == IF kind = "yfinance" THEN Retries ELSE RetriesAV
BackoffOf(kind) == IF kind = "yfinance" THEN Backoff ELSE BackoffAV

\* the back-off is kept as it is
KeepBackoff(b) == b

\* backoff *= 2
DoubleBackoff(b) == b * 2

\* what one pass through the try block does: it raises (in the download or
\* in the handling of the frame), or gets an empty frame, or gets bars
Outcomes == {"raise", "empty", "data"}

\* self.tickers: any list, repetitions included
FetchLists == UNION {[1..n -> {"AAPL", "MSFT"}] : n \in 0..MaxFetchTickers}

\* the request times not older than the window
RecentRequests(times, now) == SelectSeq(times, LAMBDA t : now - t < ThrottleWindow)

\* StockScraperAV._throttle at time now: the seconds it sleeps and the
\* request times it leaves.  StockScraper has no rate limiter.
Throttle(kind, times, now) ==
    IF kind = "yfinance" THEN [wait |-> 0, times |-> times]
    ELSE LET kept == RecentRequests(times, now)
         IN  IF Len(kept) >= RATE_LIMIT
             THEN LET wait == ThrottleWindow - (now - kept[1]) + 1
                  IN  [wait |-> wait,
                       times |-> Append(RecentRequests(kept, now + wait), now + wait)]
             ELSE [wait |-> 0, times |-> Append(kept, now)]

\* retries run out: the call gives up on the remaining tickers
AbortOnExhaustion(ni, n, exhausted) == IF exhausted \/ ni > n THEN "done" ELSE "try"

\* where the for loop stands once ticker ni - 1 is left, by a break or, the
\* retries run out, by the else branch of the while loop: at the next
\* ticker, or past the last one of n
NextTicker(ni, n, exhausted) == IF ni > n THEN "done" ELSE "try"

\* scraper.fetch_data() is called on a scraper built for a list of tickers
FetchStart(kind, tickers) ==
    /\ scraper.pc = "idle"
    /\ scraper' = [pc |-> IF tickers = <<>> THEN "done" ELSE "try",
                   kind |-> kind, tickers |-> tickers, i |-> 1,
                   retries |-> RetriesOf(kind), backoff |-> BackoffOf(kind),
                   data |-> {}, log |-> <<>>, now |-> 0, times |-> <<>>]
    /\ UNCHANGED <<db, hist, sent, op, nwrites, setup, run, nruns, fb, ab, odb>>

\* one pass through the body of `while retries > 0` for ticker number i.  A
\* request takes no time on the clock; the clock advances by the sleeps.
\* log keeps, per attempt, the ticker's position, the outcome, the seconds
\* _throttle slept before the request and the seconds slept after a raise.
Download(out) ==
    /\ scraper.pc = "try"
    /\ LET th == Throttle(scraper.kind, scraper.times, scraper.now)
           slept == IF out = "raise" THEN scraper.backoff ELSE 0
           left == IF out = "raise" THEN scraper.retries - 1 ELSE scraper.retries
           moveon == out # "raise" \/ left = 0
           ni == IF moveon THEN scraper.i + 1 ELSE scraper.i
       IN  scraper' = [scraper EXCEPT
                !.log = Append(@, [i |-> scraper.i, out |-> out,
                                   throttled |-> th.wait, slept |-> slept]),
                !.times = th.times,
                !.now = @ + th.wait + slept,
                !.data = IF out = "data" THEN @ \cup {scraper.tickers[scraper.i]} ELSE @,
                !.i = ni,
                !.retries = IF moveon THEN RetriesOf(scraper.kind) ELSE left,
                !.backoff = IF moveon THEN BackoffOf(scraper.kind) ELSE DoubleBackoff(@),
                !.pc = NextTicker(ni, Len(scraper.tickers), left = 0)]
    /\ UNCHANGED <<db, hist, sent, op, nwrites, setup, run, nruns, fb, ab, odb>>

FetchNext ==
    \/ \E k \in ScraperTypes, ts \in FetchLists : FetchStart(k, ts)
    \/ \E o \in Outcomes : Download(o)

FetchSpec == Init /\ [][FetchNext]_vars

\* the interpreter keeps running the loop: a download returns or raises
FetchLive == FetchSpec /\ WF_vars(\E o \in Outcomes : Download(o))

----
\* The feature builder (scraper/utils/feature_builder.py and the indicator
\* functions it merges).  A bar table is a sequence of rows [DATE, VAL], VAL
\* being the close.  A cell of an indicator column is TRUE when the
\* indicator has a value in that row and FALSE when it is left unset (NaN).

\* the longest bar table handed to the feature builder
MaxBars == 3

\* the defaults of build_features
DefaultMA == <<5, 20, 50>>
DefaultBB == <<20>>
DefaultRSI == <<14>>
DefaultMACD == <<<<12, 26, 9>>>>
DefaultVol == <<10>>
DefaultATR == <<14>>

\* the list as it was passed
KeepEmpty(x, default) == x

\* `x or default`: None and the empty list both give the default
OrDefault(x, default) == IF x = None THEN default ELSE x

\* a table of the feature builder: the number of indicator columns and the
\* rows [DATE, c], c the cells of the row, as a bag
SeqToBag(s) ==
    [x \in {s[i] : i \in 1..Len(s)} |-> Cardinality({i \in 1..Len(s) : s[i] = x})]

\* result = df[["DATE"]].copy() and the columns added to it: one row per
\* row of df, cells[i] being the cells of row i
IndicatorTable(rows, width, cells) ==
    [w |-> width,
     rows |-> SeqToBag([i \in 1..Len(rows) |-> [DATE |-> rows[i].DATE, c |-> cells[i]]])]

\* compute_returns: pct_change and log(close / close.shift(1)) have no value
\* in the first row
compute_returns(rows, log) ==
    IndicatorTable(rows, 1, [i \in 1..Len(rows) |-> <<i >= 2>>])

\* compute_moving_averages: rolling(w).mean() has a value from row w on
compute_moving_averages(rows, windows) ==
    IndicatorTable(rows, Len(windows),
                   [i \in 1..Len(rows) |-> [k \in 1..Len(windows) |-> i >= windows[k]]])

\* compute_bollinger_bands: two columns per window, mean -+ 2 * std of the
\* last w closes; the standard deviation of one value is unset
compute_bollinger_bands(rows, windows) ==
    IndicatorTable(rows, 2 * Len(windows),
                   [i \in 1..Len(rows) |-> [k \in 1..(2 * Len(windows)) |->
                                  LET w == windows[(k + 1) \div 2]
                                  IN  i >= w /\ w >= 2]])

\* compute_rsi: the exponential means of the gains and of the losses start
\* at the second row; their quotient is unset while both are zero
compute_rsi(rows, windows) ==
    IndicatorTable(rows, Len(windows),
                   [i \in 1..Len(rows) |-> [k \in 1..Len(windows) |->
                                  \E j \in 2..i : rows[j].VAL # rows[j - 1].VAL]])

\* compute_macd: two columns per parameter triple, exponential means of the
\* close, set in every row
compute_macd(rows, params) ==
    IndicatorTable(rows, 2 * Len(params),
                   [i \in 1..Len(rows) |-> [k \in 1..(2 * Len(params)) |-> TRUE]])

\* compute_volatility: the standard deviation of the last w returns
compute_volatility(rows, windows) ==
    IndicatorTable(rows, Len(windows),
                   [i \in 1..Len(rows) |-> [k \in 1..Len(windows) |->
                                  i >= windows[k] + 1 /\ windows[k] >= 2]])

\* compute_atr: rolling(w).mean() of the true range
compute_atr(rows, windows) ==
    IndicatorTable(rows, Len(windows),
                   [i \in 1..Len(rows) |-> [k \in 1..Len(windows) |-> i >= windows[k]]])

Unset(n) == [k \in 1..n |-> FALSE]

\* the two tables stacked, every row of both kept (pd.concat)
ConcatRows(L, R) ==
    [w |-> L.w + R.w,
     rows |-> SetToBag({[DATE |-> l.DATE, c |-> l.c \o Unset(R.w)] : l \in DOMAIN L.rows})
              (+) SetToBag({[DATE |-> r.DATE, c |-> Unset(L.w) \o r.c] : r \in DOMAIN R.rows})]

\* pd.merge(left, right, on="DATE", how="outer"): every pair of a left and a
\* right row with the same DATE, and every row without a partner with the
\* other side's cells unset
MergeOuter(L, R) ==
    LET kl == {l.DATE : l \in DOMAIN L.rows}
        kr == {r.DATE : r \in DOMAIN R.rows}
        dom == {[DATE |-> p[1].DATE, c |-> p[1].c \o p[2].c] :
                    p \in {q \in (DOMAIN L.rows) \X (DOMAIN R.rows) : q[1].DATE = q[2].DATE}}
               \cup {[DATE |-> l.DATE, c |-> l.c \o Unset(R.w)] :
                        l \in {x \in DOMAIN L.rows : x.DATE \notin kr}}
               \cup {[DATE |-> r.DATE, c |-> Unset(L.w) \o r.c] :
                        r \in {x \in DOMAIN R.rows : x.DATE \notin kl}}
        left(x) == [DATE |-> x.DATE, c |-> SubSeq(x.c, 1, L.w)]
        right(x) == [DATE |-> x.DATE, c |-> SubSeq(x.c, L.w + 1, L.w + R.w)]
    IN  [w |-> L.w + R.w,
         rows |-> [x \in dom |->
                      IF x.DATE \in kl /\ x.DATE \in kr
                      THEN L.rows[left(x)] * R.rows[right(x)]
                      ELSE IF x.DATE \in kl THEN L.rows[left(x)]
                      ELSE R.rows[right(x)]]]

RECURSIVE Reduce(_, _)
\* functools.reduce of the merge over the indicator tables
Reduce(acc, rest) ==
    IF rest = <<>> THEN acc ELSE Reduce(MergeOuter(acc, Head(rest)), Tail(rest))

\* the window and parameter lists after the `x or default` lines
Windows(o) ==
    [MA |-> OrDefault(o.ma_windows, DefaultMA),
     BB |-> OrDefault(o.bb_windows, DefaultBB),
     RSI |-> OrDefault(o.rsi_windows, DefaultRSI),
     MACD |-> OrDefault(o.macd_params, DefaultMACD),
     VOL |-> OrDefault(o.vol_windows, DefaultVol),
     ATR |-> OrDefault(o.atr_windows, DefaultATR)]

\* `if x:` appends the family, or nothing
Appended(cond, family) == IF cond THEN <<family>> ELSE <<>>

\* the column families build_features appends, in order
Families(o) ==
    LET w == Windows(o)
    IN  Appended(o.returns, "RETURN") \o Appended(o.log_returns, "LOG_RETURN")
        \o Appended(w.MA # <<>>, "MA") \o Appended(w.BB # <<>>, "BB")
        \o Appended(w.RSI # <<>>, "RSI") \o Appended(w.MACD # <<>>, "MACD")
        \o Appended(w.VOL # <<>>, "VOL") \o Appended(w.ATR # <<>>, "ATR")

\* the indicator function of a family, on the list build_features hands it
Compute(rows, o, family) ==
    LET w == Windows(o)
    IN  CASE family = "RETURN" -> compute_returns(rows, FALSE)
          [] family = "LOG_RETURN" -> compute_returns(rows, TRUE)
          [] family = "MA" -> compute_moving_averages(rows, w.MA)
          [] family = "BB" -> compute_bollinger_bands(rows, w.BB)
          [] family = "RSI" -> compute_rsi(rows, w.RSI)
          [] family = "MACD" -> compute_macd(rows, w.MACD)
          [] family = "VOL" -> compute_volatility(rows, w.VOL)
          [] family = "ATR" -> compute_atr(rows, w.ATR)

\* the indicator tables of build_features, in the order they are appended
IndicatorTables(rows, o) ==
    [k \in 1..Len(Families(o)) |-> Compute(rows, o, Families(o)[k])]

\* the module's folder, used when no save_path is given (a path is the
\* sequence of its parts)
FEATURES_FOLDER == <<"data", "features">>

\* the folder run_pipeline and _build_features save to by default
DATA_FEATURES == <<"PROJECT_ROOT", "data", "features">>

\* f"{ticker}_features.csv" if ticker else "features.csv"
FileName(ticker) ==
    IF ticker = None THEN <<"features.csv">> ELSE ticker \o <<"_features.csv">>

\* the file build_features writes: `save_path or FEATURES_FOLDER` is never
\* empty, so `if save_path:` always writes.  The frames of the model have
\* plain columns, so ticker stays None.
SavedByBuild(save_path) ==
    LET path == OrDefault(save_path, FEATURES_FOLDER)
    IN  IF path # None THEN {[dir |-> path, name |-> FileName(None)]} ELSE {}

\* build_features: the merged table
build_features(rows, o) ==
    LET features == IndicatorTables(rows, o)
    IN  Reduce(Head(features), Tail(features))

\* the bar tables handed to build_features: any rows, in any order
FeatureFrames == UNION {[1..n -> [DATE : Times, VAL : Vals]] : n \in 0..MaxBars}

\* self.features_options of BaseSetup when none is configured
DefaultOptions ==
    [returns |-> TRUE, log_returns |-> TRUE, ma_windows |-> DefaultMA,
     bb_windows |-> DefaultBB, rsi_windows |-> DefaultRSI,
     macd_params |-> DefaultMACD, vol_windows |-> DefaultVol,
     atr_windows |-> DefaultATR]

\* the options of the model: returns on or off, windows short enough to
\* have values within MaxBars rows, or left to the defaults
FeatureOptions ==
    {[DefaultOptions EXCEPT !.returns = r, !.log_returns = l, !.ma_windows = m,
                            !.vol_windows = v] :
        r \in BOOLEAN, l \in BOOLEAN, m \in {None, <<2>>, <<1, 3>>}, v \in {None, <<2>>}}

\* a direct call of build_features.  fb keeps the call and the table: its
\* width, its number of rows and, per timestamp, the rows that carry it.
BuildFeatures(rows, o, save_path) ==
    /\ fb.name = "init"
    /\ \E tables \in {IndicatorTables(rows, o)} :
       \E t \in {Reduce(Head(tables), Tail(tables))} :
           fb' = [name |-> "build_features", rows |-> rows, options |-> o,
                  save_path |-> save_path,
                  files |-> SavedByBuild(save_path),
                  families |-> Families(o),
                  widths |-> [k \in 1..Len(tables) |-> tables[k].w],
                  timestamps |-> UNION {{r.DATE : r \in DOMAIN tables[k].rows} :
                                            k \in 1..Len(tables)},
                  width |-> t.w,
                  nrows |-> BagCardinality(t.rows),
                  dates |-> {r.DATE : r \in DOMAIN t.rows},
                  unset |-> Cardinality({r \in DOMAIN t.rows :
                                            \E k \in 1..t.w : ~r.c[k]})]
    /\ UNCHANGED <<db, hist, sent, op, nwrites, setup, run, nruns, scraper, ab, odb>>

\* where a frame handed to _build_features keeps its timestamps: in a DATE
\* column, in a DatetimeIndex named Date, or nowhere
DatePlaces == {"column", "index", "missing"}

\* the frames of the model: daily bars in any order
SetupFrames ==
    [rows : UNION {[1..n -> [DATE : {d * TicksPerDay : d \in Days}, VAL : {1}]] :
                        n \in 0..MaxBars},
     date : DatePlaces]

RECURSIVE SortByDate(_)
\* sub_df.sort_values("DATE"): rows in time order, equal timestamps in the
\* order they had
SortByDate(rows) ==
    IF rows = <<>> THEN <<>>
    ELSE LET init == SortByDate(SubSeq(rows, 1, Len(rows) - 1))
             last == rows[Len(rows)]
             k == Cardinality({i \in 1..Len(init) : init[i].DATE <= last.DATE})
         IN  SubSeq(init, 1, k) \o <<last>> \o SubSeq(init, k + 1, Len(init))

\* the two `continue` branches of _build_features
SkippedFrame(df) == df.rows = <<>> \/ df.date = "missing"

\* the tickers _build_features prints a line about instead of a table
Diagnostics(data) == {t \in DOMAIN data : SkippedFrame(data[t])}

\* the mapping _build_features returns
features_by_ticker(data, o) ==
    [t \in {u \in DOMAIN data : ~SkippedFrame(data[u])} |->
        build_features(SortByDate(data[t].rows), o)]

\* the files one call of _build_features leaves: per ticker with a table the
\* file of build_features(save_path=None) and, `if save_path:`, the
\* ticker's own file
SavedBySetup(tickers, save_path) ==
    UNION {SavedByBuild(None) \cup
           (IF save_path # None
            THEN {[dir |-> save_path, name |-> <<t, "_features.csv">>]} ELSE {}) :
               t \in tickers}

\* BaseSetup._build_features on a dict of frames.  fb keeps, per ticker with
\* a table, its number of rows and the indicator columns without any value.
SetupBuildFeatures(data, save_path) ==
    /\ fb.name = "init"
    /\ \E f \in {features_by_ticker(data, DefaultOptions)} :
           fb' = [name |-> "_build_features", data |-> data,
                  save_path |-> save_path,
                  files |-> SavedBySetup(DOMAIN f, save_path),
                  features |-> [t \in DOMAIN f |->
                                  [nrows |-> BagCardinality(f[t].rows),
                                   dead |-> {k \in 1..f[t].w :
                                                \A r \in DOMAIN f[t].rows : ~r.c[k]}]],
                  printed |-> Diagnostics(data),
                  raised |-> FALSE]
    /\ UNCHANGED <<db, hist, sent, op, nwrites, setup, run, nruns, scraper, ab, odb>>

FeatNext ==
    \/ /\ fb.name = "init"
       /\ \E rows \in FeatureFrames, o \in FeatureOptions, save_path \in {None, <<"out">>} :
             BuildFeatures(rows, o, save_path)
    \/ /\ fb.name = "init"
       /\ \E data \in [{"AAPL", "MSFT"} -> SetupFrames], save_path \in {None, DATA_FEATURES} :
             SetupBuildFeatures(data, save_path)

FeatSpec == Init /\ [][FeatNext]_vars

----
\* The alpha/beta estimator (Backtester.calculate_alpha_beta).  A price
\* series is a run of consecutive bars lo..hi (none when lo > hi).  The
\* statistics of the returns are inputs: the standard deviation of the
\* benchmark returns and of the residuals (in tenths) and |beta_full|
\* (in units); the tolerance is in hundredths.

\* the longest price history, in bars
MaxPrices == 33

\* `if current_bars < 10`
MinOverlap == 10

\* `if len(idx) < 30`
WarnBelow == 30

\* `n_bars = max(30, n_bars)`
FloorBars == 30

Min(a, b) == IF a <= b THEN a ELSE b
Max(a, b) == IF a >= b THEN a ELSE b

NoRange == [given |-> FALSE]

\* prices[start_date:end_date]: both ends included
SliceRange(series, date_range) ==
    IF ~date_range.given THEN series
    ELSE [lo |-> Max(series.lo, date_range.start), hi |-> Min(series.hi, date_range.end)]

\* the days of a calendar week, the bin of resample("W")
WeekDays == 7

Frequencies == {"none", "D", "W"}

\* resample(freq).last().dropna(): one bar per bin that holds a bar; bars
\* are daily, so that "D" keeps them and "W" keeps one per week
Resample(series, freq) ==
    IF freq # "W" THEN series
    ELSE IF series.lo > series.hi THEN [lo |-> 1, hi |-> 0]
    ELSE [lo |-> (series.lo + WeekDays - 1) \div WeekDays,
          hi |-> (series.hi + WeekDays - 1) \div WeekDays]

\* pct_change(fill_method=None).dropna(): the first bar has no return
ReturnIndex(series) == (series.lo + 1)..series.hi

\* the index of the returns of one asset in a call
Returns(series, in) == ReturnIndex(Resample(SliceRange(series, in.date_range), in.freq))

\* the overlap is too short only below five bars
TooFewBelowFive(current_bars) == current_bars < 5

\* `if current_bars < 10`, reached when len(idx) < 30
TooFew(current_bars) == current_bars < WarnBelow /\ current_bars < MinOverlap

\* the cap without the floor
CapOnly(len, required_n) == Min(len, required_n)

\* n_bars = min(len(full_X), required_n); n_bars = max(30, n_bars)
ClampBars(len, required_n) == Max(FloorBars, Min(len, required_n))

Null(why) == [null |-> TRUE, printed |-> why]

Square(x) == x * x

\* the benchmark is never taken to be constant
NeverZeroVariance(stats) == FALSE

\* `if var_full == 0`
ZeroVariance(stats) == Square(stats.sigma_m) = 0

\* target_se in hundredths: error_tolerance when abs_beta < 1e-6, else
\* error_tolerance * abs_beta
TargetSE(stats, error_tolerance) ==
    IF stats.abs_beta = 0 THEN error_tolerance ELSE error_tolerance * stats.abs_beta

\* the quotient turned over: (sigma_epsilon * target_se / sigma_m) ** 2
SampleSizeTimesSE(stats, target_se) ==
    Square(stats.sigma_epsilon * target_se) \div Square(stats.sigma_m * 100)

\* int((sigma_epsilon / (sigma_m * target_se)) ** 2), target_se in hundredths
SampleSize(stats, target_se) ==
    Square(stats.sigma_epsilon * 100) \div Square(stats.sigma_m * target_se)

\* step 5: the required number of bars.  Returns that hold a non-finite
\* value make every statistic NaN, and so does a division by a zero
\* deviation: no comparison with NaN holds and int() raises.  "all" is the
\* branch target_se < 1e-9, which takes the whole overlap
required_n(stats, error_tolerance, len) ==
    IF ~stats.finite \/ stats.sigma_m = 0 THEN [kind |-> "nonfinite", n |-> 0]
    ELSE IF TargetSE(stats, error_tolerance) = 0 THEN [kind |-> "all", n |-> len]
    ELSE [kind |-> "n", n |-> SampleSize(stats, TargetSE(stats, error_tolerance))]

\* the last n elements of an index in time order: index.iloc[-n:], n > 0
LastN(idx, n) == {x \in idx : Cardinality({y \in idx : y > x}) < n}

\* the first n elements of an index
FirstN(idx, n) == {x \in idx : Cardinality({y \in idx : y < x}) < n}

\* a portfolio is taken to be there
AnyPortfolio(self) == TRUE

\* `self.portfolio is None` is false
HasPortfolio(self) == self.portfolio

\* the calls of _fetch_data that get_price_data makes: one when self.data
\* is an empty dict
PriceFetches(self) == IF self.data = "empty" THEN 1 ELSE 0

\* calculate_alpha_beta: None (with the line it prints) or the result dict;
\* used is the length of final_X, the rows full_X.iloc[-n_bars:] has,
\* window the timestamps of final_X and full those of full_X
calculate_alpha_beta(self, in) ==
    LET idx == Returns(in.strategy, in) \cap Returns(in.benchmark, in)
        len == Cardinality(idx)
        estimate == required_n(in.stats, in.error_tolerance, len)
        n_bars == ClampBars(len, estimate.n)
    IN  IF ~HasPortfolio(self) THEN Null("No portfolio available")
        ELSE IF self.data = "DataFrame" THEN Null("Error calculating alpha/beta")
        ELSE IF in.have = "no_strategy" THEN Null("Strategy ticker not found")
        ELSE IF in.have = "no_benchmark" THEN Null("Benchmark not found")
        ELSE IF TooFew(len) THEN Null("Only a few bars available")
        ELSE IF ZeroVariance(in.stats) THEN Null("Benchmark variance is 0")
        ELSE IF estimate.kind = "nonfinite" THEN Null("Error calculating alpha/beta")
        ELSE [null |-> FALSE, n_bars_used |-> n_bars, required_n |-> estimate.n,
              used |-> Min(n_bars, len), warned |-> len < WarnBelow,
              window |-> LastN(idx, n_bars), full |-> idx]

\* the overlap of the two return series of a call
Overlap(in) ==
    Cardinality(Returns(in.strategy, in) \cap Returns(in.benchmark, in))

\* beta_full = cov_full / var_full is reached with var_full = 0
DividesByZero(self, in) ==
    /\ HasPortfolio(self) /\ self.data # "DataFrame" /\ in.have = "ok"
    /\ ~TooFew(Overlap(in)) /\ ~ZeroVariance(in.stats)
    /\ in.stats.finite /\ in.stats.sigma_m = 0

\* the calls of _fetch_data a call of calculate_alpha_beta makes
CallFetches(self) == IF HasPortfolio(self) THEN PriceFetches(self) ELSE 0

\* the strategy asset has the whole history or starts late; the benchmark
\* has any run of bars
StrategySeries == {[lo |-> 1, hi |-> MaxPrices], [lo |-> 3, hi |-> MaxPrices]}
BenchmarkSeries == {[lo |-> l, hi |-> h] : l \in 1..MaxPrices, h \in 0..MaxPrices}

DateRanges2 ==
    {NoRange, [given |-> TRUE, start |-> 2, end |-> MaxPrices - 1],
     [given |-> TRUE, start |-> 1, end |-> 6]}

\* the statistics of the overlap: a constant benchmark, a perfect fit,
\* noise as large as the benchmark moves, larger noise, a beta below 1e-6,
\* and returns with a non-finite value (a price of zero)
Stats ==
    {[sigma_m |-> 0, sigma_epsilon |-> 10, abs_beta |-> 0, finite |-> TRUE],
     [sigma_m |-> 10, sigma_epsilon |-> 0, abs_beta |-> 1, finite |-> TRUE],
     [sigma_m |-> 10, sigma_epsilon |-> 10, abs_beta |-> 1, finite |-> TRUE],
     [sigma_m |-> 10, sigma_epsilon |-> 28, abs_beta |-> 1, finite |-> TRUE],
     [sigma_m |-> 10, sigma_epsilon |-> 28, abs_beta |-> 0, finite |-> TRUE],
     [sigma_m |-> 10, sigma_epsilon |-> 10, abs_beta |-> 2, finite |-> FALSE]}

\* error_tolerance in hundredths: 0, the default 0.20, 0.45 and 0.50
Tolerances == {0, 20, 45, 50}

\* the arguments of one call and the price data it finds
CallInput(s, b, d, f, st, t) ==
    [have |-> "ok", strategy |-> s, benchmark |-> b, date_range |-> d,
     freq |-> f, stats |-> st, error_tolerance |-> t]

\* the runs of bars a benchmark can have, the empty one included
ValidBenchmarks == {x \in BenchmarkSeries : x.lo <= x.hi + 1}

\* the calls that name a ticker the price data does not have
MissingTickerInputs ==
    {[have |-> h, strategy |-> [lo |-> 1, hi |-> MaxPrices],
      benchmark |-> [lo |-> 1, hi |-> MaxPrices], date_range |-> NoRange,
      freq |-> "D", stats |-> st, error_tolerance |-> 20] :
        h \in {"no_strategy", "no_benchmark"},
        st \in {x \in Stats : x.sigma_epsilon = 0}}

\* the benchmarks of the calls made on an instance without a portfolio: a
\* whole history, a short one and a late one
FewBenchmarks ==
    {[lo |-> 1, hi |-> MaxPrices], [lo |-> 1, hi |-> 6], [lo |-> 20, hi |-> MaxPrices]}

\* self.data = self.data_dict at the end of _fetch_data: a dict, empty or
\* with the price frames
LoadData(kind) ==
    /\ ab.name = "init"
    /\ ab' = [ab EXCEPT !.name = "load", !.data = kind]
    /\ UNCHANGED <<db, hist, sent, op, nwrites, setup, run, nruns, scraper, fb, odb>>

\* why run_backtest raises, if it does: `not self.data` on a DataFrame, no
\* date shared by prices and signals (no price at all after a fetch that
\* found nothing), or the engine
BacktestError(self, fetched, signals, engine) ==
    IF self.data = "DataFrame" THEN "ValueError"
    ELSE IF self.data = "empty" /\ fetched = "empty" THEN "ValueError"
    ELSE IF signals = "disjoint" THEN "ValueError"
    ELSE IF engine = "raise" THEN "Exception"
    ELSE "none"

\* run_backtest: get_price_data (which fetches when self.data is an empty
\* dict), the dates shared with the signals, the engine; self.portfolio is
\* assigned last
RunBacktest(fetched, signals, engine) ==
    /\ ab.name \in {"init", "load"}
    /\ \E e \in {BacktestError(ab, fetched, signals, engine)} :
        ab' = [ab EXCEPT !.name = "run_backtest",
                         !.data = IF ab.data = "empty" THEN fetched ELSE ab.data,
                         !.portfolio = ab.portfolio \/ e = "none",
                         !.ok_runs = ab.ok_runs + (IF e = "none" THEN 1 ELSE 0),
                         !.failed_runs = ab.failed_runs + (IF e = "none" THEN 0 ELSE 1),
                         !.raised = e # "none"]
    /\ UNCHANGED <<db, hist, sent, op, nwrites, setup, run, nruns, scraper, fb, odb>>

\* one call of calculate_alpha_beta; every exception is caught inside it
Estimate(in) ==
    /\ ab.name # "calculate_alpha_beta"
    /\ ab' = [ab EXCEPT !.name = "calculate_alpha_beta", !.raised = FALSE]
             @@ [in |-> in, overlap |-> Overlap(in),
                 var_zero |-> ZeroVariance(in.stats),
                 estimate |-> required_n(in.stats, in.error_tolerance, Overlap(in)),
                 result |-> calculate_alpha_beta(ab, in),
                 zero_division |-> DividesByZero(ab, in),
                 fetched |-> CallFetches(ab)]
    /\ UNCHANGED <<db, hist, sent, op, nwrites, setup, run, nruns, scraper, fb, odb>>

\* the life of one instance: data loaded or not, a backtest or not, then
\* one call of calculate_alpha_beta
EstNext ==
    \/ \E kind \in {"empty", "loaded"} : LoadData(kind)
    \/ \E fetched \in {"empty", "loaded"}, signals \in {"shared", "disjoint"},
          engine \in {"ok", "raise"} : RunBacktest(fetched, signals, engine)
    \/ /\ ab.name # "calculate_alpha_beta" /\ ab.portfolio
       /\ \/ \E s \in StrategySeries, b \in ValidBenchmarks, d \in DateRanges2,
                f \in Frequencies, st \in Stats, t \in Tolerances :
                    Estimate(CallInput(s, b, d, f, st, t))
          \/ \E in \in MissingTickerInputs : Estimate(in)
    \/ /\ ab.name # "calculate_alpha_beta" /\ ~ab.portfolio
       /\ \E s \in StrategySeries, b \in FewBenchmarks, d \in DateRanges2,
             f \in Frequencies, st \in Stats, t \in Tolerances :
                Estimate(CallInput(s, b, d, f, st, t))

EstSpec == Init /\ [][EstNext]_vars

----
\* The options store (write_options_to_db): one table per upper-cased
\* ticker.  A contract row is [EXPIRATION, OPTION_TYPE, strike,
\* contractSymbol, lastPrice, FETCH_DATE]; a table knows whether it has the
\* contractSymbol column, and a frame without it stores NULL there.

\* the rows of one batch
MaxContracts == 2
\* the calls of write_options_to_db
MaxOptionWrites == 2

NULL == "NULL"

\* the days a batch is written on: a Saturday, a Sunday and the Monday
\* after (day % 7 is the weekday, Monday 0)
WriteDays == {5, 6, 7}

\* current_date moved back to the Friday when it is a Saturday (5) or a
\* Sunday (6)
FetchDate(today) ==
    IF today % 7 = 5 THEN today - 1
    ELSE IF today % 7 = 6 THEN today - 2
    ELSE today

\* the contracts of a chain as the scraper hands them over, in the order
\* of the concatenated frames
ChainRows == [EXPIRATION : {"e1", "e2"}, OPTION_TYPE : {"calls", "puts"}, strike : {1, 2}]
Chains == UNION {[1..n -> ChainRows] : n \in 0..MaxContracts}

\* combined_df: the rows of the batch with their metadata columns; sym
\* tells whether the frames have a contractSymbol column, and the quote of
\* a contract is that of the day
CombinedRows(chain, sym, today) ==
    [i \in 1..Len(chain) |->
        [EXPIRATION |-> chain[i].EXPIRATION, OPTION_TYPE |-> chain[i].OPTION_TYPE,
         strike |-> chain[i].strike,
         contractSymbol |-> IF sym THEN "SYM" ELSE NULL,
         lastPrice |-> today, FETCH_DATE |-> FetchDate(today)]]

\* key_columns: EXPIRATION, OPTION_TYPE, and strike and contractSymbol
\* when combined_df has them
KeyColumns(sym) ==
    IF sym THEN <<"EXPIRATION", "OPTION_TYPE", "strike", "contractSymbol">>
    ELSE <<"EXPIRATION", "OPTION_TYPE", "strike">>

RECURSIVE Join(_, _)
\* sep.join(parts)
Join(parts, sep) ==
    IF parts = <<>> THEN <<>>
    ELSE IF Len(parts) = 1 THEN <<Head(parts)>>
    ELSE <<Head(parts), sep>> \o Join(Tail(parts), sep)

\* df[key_columns].astype(str).agg('||'.join, axis=1) of one row
MergeKey(row, key_columns) ==
    Join([k \in 1..Len(key_columns) |-> row[key_columns[k]]], "||")

\* every row of the batch is appended
AppendAll(rows, combined, key_columns) == combined

\* combined_df[~combined_df['_merge_key'].isin(existing_df['_merge_key'])]
NewRows(rows, combined, key_columns) ==
    SelectSeq(combined,
              LAMBDA r : MergeKey(r, key_columns) \notin
                            {MergeKey(x, key_columns) : x \in DOMAIN rows})

\* the loop body of write_options_to_db for one ticker: the table after
\* it.  Asking a table without the contractSymbol column for it is a
\* KeyError, caught and printed: nothing is written
WriteChain(tbl, chain, sym, today) ==
    LET combined == CombinedRows(chain, sym, today)
        fresh == IF tbl.exists /\ tbl.rows # EmptyBag
                 THEN NewRows(tbl.rows, combined, KeyColumns(sym))
                 ELSE combined
    IN  IF combined = <<>> THEN tbl
        ELSE IF tbl.exists /\ tbl.rows # EmptyBag /\ sym /\ ~tbl.sym THEN tbl
        ELSE IF fresh = <<>> THEN tbl
        ELSE [exists |-> TRUE,
              sym |-> IF tbl.exists THEN tbl.sym ELSE sym,
              rows |-> tbl.rows (+) SeqToBag(fresh)]

\* write_options_to_db on the options data of one ticker
write_options_to_db(tables, ticker, chain, sym, today) ==
    [tables EXCEPT ![Upper(ticker)] = WriteChain(@, chain, sym, today)]

\* the contract of a row as the docstring names it
Contract(r) == <<r.EXPIRATION, r.OPTION_TYPE, r.strike, r.contractSymbol>>

\* a call of write_options_to_db.  op keeps the batch, the table as it
\* was, and the tables as the same call leaves them when made again.
WriteOptions(ticker, chain, sym, today) ==
    /\ odb.nwrites < MaxOptionWrites
    /\ \E once \in {write_options_to_db(odb.tables, ticker, chain, sym, today)} :
        odb' = [tables |-> once,
                op |-> [name |-> "write_options", table |-> Upper(ticker),
                        batch |-> CombinedRows(chain, sym, today),
                        before |-> odb.tables[Upper(ticker)],
                        again |-> write_options_to_db(once, ticker, chain, sym, today)],
                nwrites |-> odb.nwrites + 1]
    /\ UNCHANGED <<db, hist, sent, op, nwrites, setup, run, nruns, scraper, fb, ab>>

OptNext ==
    \E ticker \in WriteTickers, chain \in Chains, sym \in BOOLEAN, today \in WriteDays :
        WriteOptions(ticker, chain, sym, today)

OptSpec == Init /\ [][OptNext]_vars

----
\* What the history says the store should hold

MinOf(S) == CHOOSE x \in S : \A y \in S : x <= y
MaxOf(S) == CHOOSE x \in S : \A y \in S : y <= x

\* timestamps ever written to a table under an interval
SentTimes(tn, iv) == {r.DATE : r \in {x \in sent[tn] : x.INTERVAL = iv}}

\* the rows a table should hold for an interval: one per key, last value
LastRows(tn, iv) ==
    {r \in [DATE : Times, INTERVAL : {iv}, VAL : Vals] :
        r.VAL \in hist[tn][<<r.DATE, iv>>]}

\* rows of a table stored under the key of timestamp t and interval iv
StoredAt(tn, t, iv) ==
    {r \in DOMAIN db[tn].rows : r.DATE = StrfTime(t) /\ r.INTERVAL = iv}

----
\* C2: after any sequence of writes, get_ticker_date_range returns exactly
\* the minimum and the maximum timestamp over all batches ever written for
\* that instrument and interval (and nothing when none was written).
C2_CoverageIsUnionMinMax ==
    op.name = "range" =>
        LET ts == SentTimes(Upper(op.ticker), op.interval)
        IN  IF ts = {} THEN op.result = <<None, None>>
            ELSE /\ op.result[1] # None /\ op.result[2] # None
                 /\ ToDatetime(op.result[1]) = MinOf(ts)
                 /\ ToDatetime(op.result[2]) = MaxOf(ts)

C2_Witness ==
    /\ op.name = "range" /\ nwrites = MaxWrites
    /\ op.result[1] # None /\ op.result[1] # op.result[2]
    /\ \E iv \in Intervals : iv # op.interval /\ SentTimes(Upper(op.ticker), iv) # {}

\* C3: write_data_to_db is idempotent: the same call made a second time
\* leaves every table with the same rows, in the same number.
C3_WriteIdempotent == op.name = "write" => op.again = db

C3_Witness ==
    /\ op.name = "write" /\ nwrites = MaxWrites
    /\ op.n = MaxBatch /\ op.hits = 1
    /\ BagCardinality(db[op.table].rows) >= 3

\* C4: after any sequence of writes a table holds exactly one row for every
\* (timestamp, interval) key ever written, with the values of the most
\* recent write of that key, and no row for any other key.
C4_OneRowPerKeyLastWins ==
    \A tn \in TableNames, iv \in Intervals, t \in Times :
        LET at == StoredAt(tn, t, iv)
        IN  IF \E r \in sent[tn] : r.DATE = t /\ r.INTERVAL = iv
            THEN /\ Cardinality(at) = 1
                 /\ \A r \in at : db[tn].rows[r] = 1 /\ r.VAL \in hist[tn][<<t, iv>>]
            ELSE at = {}

C4_Witness ==
    /\ op.name = "write" /\ op.hits >= 1
    /\ \E r1 \in sent[op.table], r2 \in sent[op.table] :
            r1.DATE = r2.DATE /\ r1.INTERVAL = r2.INTERVAL /\ r1.VAL # r2.VAL
    /\ BagCardinality(db[op.table].rows) >= 2

\* C5: read_by_date returns exactly the stored rows of the interval whose
\* timestamp t satisfies start <= t <= end, both bounds inclusive, the
\* bounds being date strings and the timestamps stored by write_data_to_db.
C5_ReadRangeInclusive ==
    op.name = "read" =>
        BagToSet(op.result) =
            {r \in LastRows(Upper(op.ticker), op.interval) :
                /\ (op.start_date # None => ToDatetime(op.start_date) <= r.DATE)
                /\ (op.end_date # None => r.DATE <= ToDatetime(op.end_date))}

NoTwoValuesPerKey(tn) ==
    \A r1 \in sent[tn], r2 \in sent[tn] :
        (r1.DATE = r2.DATE /\ r1.INTERVAL = r2.INTERVAL) => r1 = r2

C7_MissingTableQueries ==
    [][(~IsQuery /\ op'.name \in {"range", "read"} /\ ~db[Upper(op'.ticker)].exists) =>
            /\ db' = db
            /\ op'.result = (IF op'.name = "range" THEN <<None, None>> ELSE EmptyBag)]_vars

C7_Witness ==
    /\ IsQuery /\ ~db[Upper(op.ticker)].exists
    /\ \E tn \in TableNames : db[tn].exists /\ BagCardinality(db[tn].rows) >= 2

----
\* The pipeline claims

IsRun == nruns' = nruns + 1

\* the request lies inside what was stored for the instrument and interval
Covered(t) ==
    /\ setup.start_date # None /\ setup.end_date # None
    /\ LET ts == SentTimes(Upper(t), setup.interval)
       IN  /\ ts # {}
           /\ MinOf(ts) <= ToDatetime(setup.start_date)
           /\ ToDatetime(setup.end_date) <= MaxOf(ts)

\* C1: for every configured interval, once a pipeline run has stored bars
\* covering [start, end], a later run requesting a range inside the stored
\* coverage does not fetch the instrument and serves it from the store; with
\* every instrument covered, scraper.fetch_data is not invoked.
C1_NoFetchInsideCoverage ==
    [][IsRun =>
        /\ \A t \in Range(setup.tickers) :
              Covered(t) => /\ t \notin Range(run'.tickers_to_fetch)
                            /\ t \in run'.read_from_db
        /\ (\A t \in Range(setup.tickers) : Covered(t)) => run'.fetch_calls = 0]_vars

\* the three conditions of the fetch decision, on the timestamps stored
\* under the interval _fetch_data queries
Marked(t, now) ==
    LET ts == SentTimes(Upper(t), DefaultInterval)
        req_end == IF setup.end_date # None THEN ToDatetime(setup.end_date) ELSE now
    IN  \/ ts = {}
        \/ setup.start_date # None /\ ToDatetime(setup.start_date) < MinOf(ts)
        \/ req_end - MaxOf(ts) > TicksPerDay

\* C8: _fetch_data marks an instrument as needing a fetch exactly when its
\* coverage is null, or the requested start is strictly before the stored
\* minimum, or the requested end (the current time when none is configured)
\* is more than one day after the stored maximum.
C8_FetchDecision ==
    [][IsRun =>
        \A t \in Range(setup.tickers) :
            (t \in Range(run'.tickers_to_fetch)) <=> Marked(t, run'.now)]_vars

C8_Witness ==
    /\ run.done
    /\ setup.end_date # None
    /\ \E t \in Range(setup.tickers) :
          /\ t \notin Range(run.tickers_to_fetch)
          /\ LET ts == SentTimes(Upper(t), DefaultInterval)
             IN  ts # {} /\ ToDatetime(setup.end_date) = MaxOf(ts) + TicksPerDay

\* C9: within one run scraper.fetch_data is invoked at most once, with
\* exactly the instruments marked as needing a fetch, and not at all when
\* there is none; every other instrument is read from the store, and no
\* instrument is both fetched and read from the store.
C9_SingleBatchedFetch ==
    run.done =>
        /\ run.fetch_calls \in {0, 1}
        /\ (run.fetch_calls = 0) <=> (run.tickers_to_fetch = <<>>)
        /\ run.fetch_arg = run.tickers_to_fetch
        /\ DOMAIN run.attempts = Range(run.tickers_to_fetch)
        /\ \A t \in Range(setup.tickers) \ Range(run.tickers_to_fetch) :
              t \in run.read_from_db /\ run.data[t].src = "db"
        /\ run.read_from_db \cap DOMAIN run.attempts = {}

C9_Witness ==
    /\ run.done
    /\ Len(run.tickers_to_fetch) = 1
    /\ Len(setup.tickers) = 2
    /\ \E t \in run.read_from_db : run.data[t].rows # {}

\* an attempt for t returned a frame without rows
ZeroRows(r) == r.raises < Retries /\ Empty(r)

\* C10: an instrument for which the source returns zero rows is not retried,
\* is absent from the scraper's data, gets no rows written and no feature
\* table, and raises nothing: the run completes with the results of the
\* other instruments.
C10_NoDataInstrument ==
    [][IsRun =>
        \A t \in DOMAIN run'.attempts :
            ZeroRows(run'.resp[t]) =>
                /\ run'.attempts[t] = run'.resp[t].raises + 1
                /\ t \notin run'.scraper_data
                /\ t \notin DOMAIN run'.data
                /\ db'[Upper(t)] = db[Upper(t)]
                /\ t \notin run'.features
                /\ run'.done /\ ~run'.raised
                /\ \A u \in Range(setup.tickers) \ {t} :
                      \/ u \in run'.features
                      \/ u \in run'.read_from_db /\ run'.data[u].rows = {}
                      \/ u \in DOMAIN run'.attempts /\ ~Stored(run'.resp[u])]_vars

C10_Witness ==
    /\ run.done /\ ~run.raised
    /\ \E t \in DOMAIN run.attempts, u \in DOMAIN run.attempts :
          /\ ZeroRows(run.resp[t]) /\ run.resp[t].raises = 1
          /\ u # t /\ u \in run.features /\ run.data[u].src = "api"

----
\* The retry loop claims

\* the attempts made so far for the ticker at position i of the list
AttemptsOf(i) == SelectSeq(scraper.log, LAMBDA e : e.i = i)

\* attempt k of the log is a re-attempt: it follows an attempt for the same ticker
IsRetry(k) == k > 1 /\ scraper.log[k].i = scraper.log[k - 1].i

\* the seconds between the end of attempt k - 1 and the request of attempt k
WaitBefore(k) == scraper.log[k - 1].slept + scraper.log[k].throttled

\* bounded attempts, a new attempt only after a raise, none after a response
RetryDiscipline ==
    /\ \A i \in 1..Len(scraper.tickers) : Len(AttemptsOf(i)) <= RetriesOf(scraper.kind)
    /\ \A k \in 1..Len(scraper.log) : IsRetry(k) => scraper.log[k - 1].out = "raise"
    /\ \A k \in 1..Len(scraper.log), j \in 1..Len(scraper.log) :
          (j < k /\ scraper.log[j].out # "raise") => scraper.log[j].i < scraper.log[k].i

\* C11 (as claimed): at most 3 (resp. 5) attempts per instrument, a new
\* attempt only after the previous one raised, none after a response, and
\* the wait before each re-attempt is double the previous wait, starting at
\* 1 s (resp. 12 s).
C11_RetryWaitDoubles ==
    scraper.pc # "idle" =>
        /\ RetryDiscipline
        /\ \A k \in 1..Len(scraper.log) :
              IsRetry(k) =>
                  WaitBefore(k) = IF IsRetry(k - 1) THEN 2 * WaitBefore(k - 1)
                                  ELSE BackoffOf(scraper.kind)

\* C11 (amended): the same, the wait being the back-off sleep of the loop:
\* the sleep after a raise is double the sleep after the previous raise for
\* the same instrument, starting at 1 s (resp. 12 s).  The rate limiter of
\* StockScraperAV may sleep in addition.
C11_RetryBackoffDoubles ==
    scraper.pc # "idle" =>
        /\ RetryDiscipline
        /\ \A k \in 1..Len(scraper.log) :
              /\ scraper.log[k].throttled > 0 => scraper.kind = "alphavantage"
              /\ scraper.log[k].out = "raise" =>
                    scraper.log[k].slept = IF IsRetry(k) THEN 2 * scraper.log[k - 1].slept
                                           ELSE BackoffOf(scraper.kind)
              /\ scraper.log[k].out # "raise" => scraper.log[k].slept = 0

C11_Witness ==
    /\ scraper.pc = "done" /\ scraper.kind = "alphavantage"
    /\ \E i \in 1..Len(scraper.tickers) :
          /\ Len(AttemptsOf(i)) = RetriesAV
          /\ AttemptsOf(i)[RetriesAV].out = "raise"
    /\ \E k \in 1..Len(scraper.log) : IsRetry(k) /\ scraper.log[k].throttled > 0
    /\ \E k \in 1..Len(scraper.log) : IsRetry(k) /\ scraper.log[k].out = "data"

\* the ticker at position i was given up after the last retry raised
Exhausted(i) ==
    /\ Len(AttemptsOf(i)) = RetriesOf(scraper.kind)
    /\ \A k \in 1..Len(AttemptsOf(i)) : AttemptsOf(i)[k].out = "raise"

\* C12: exhausting the retries of one instrument does not abort the batch:
\* fetch_data terminates, every instrument of the list is attempted at least
\* once and in list order, and every instrument with an attempt that
\* returned bars is in the scraper's data, whatever attempts failed.
C12_FailuresDoNotAbortBatch ==
    /\ [](scraper.pc # "idle" =>
            /\ \A k \in 2..Len(scraper.log) : scraper.log[k - 1].i <= scraper.log[k].i
            /\ \A k \in 1..Len(scraper.log) :
                  scraper.log[k].out = "data" =>
                      scraper.tickers[scraper.log[k].i] \in scraper.data
            /\ scraper.pc = "done" =>
                  \A i \in 1..Len(scraper.tickers) : Len(AttemptsOf(i)) >= 1)
    /\ (scraper.pc = "try") ~> (scraper.pc = "done")

C12_Witness ==
    /\ scraper.pc = "done" /\ Len(scraper.tickers) = MaxFetchTickers
    /\ Exhausted(1)
    /\ scraper.tickers[1] # scraper.tickers[2]
    /\ scraper.tickers[2] \in scraper.data
    /\ Len(AttemptsOf(2)) >= 2

----
\* The error-path claims of the pipeline

\* C13: with include_options enabled, every run fetches and persists the
\* options of all configured instruments, whatever the bar fetch and the bar
\* write did; and a failure while fetching or persisting options never keeps
\* the bar results from being returned.
C13_OptionsIndependentOfBars ==
    [][IsRun =>
        /\ setup.include_options =>
              /\ run'.options.fetched = Range(setup.tickers)
              /\ run'.options.persist
        /\ run'.error # "OptionsStoreError"]_vars

\* C14: a configuration error (unknown scraper_type, alphavantage without
\* an API key) is raised when BaseSetup is constructed: no BaseSetup with
\* such a configuration exists, so nothing ever runs under one.
C14_ConfigErrorAtConstruction ==
    /\ setup.made => ~ScraperConfigError(setup)
    /\ run.done => ~ScraperConfigError(setup)

\* C15: a store error raised while the fetched bars are upserted comes out
\* of write_data_to_db, _fetch_data and run_pipeline: the run raises it and
\* returns neither data nor features.
C15_StoreErrorPropagates ==
    [][(IsRun /\ run'.fetch_calls = 1 /\ FaultHits(run'.env.write_fault,
            [i \in 1..Cardinality(run'.scraper_data) |-> i])) =>
            /\ run'.raised /\ run'.error = "StoreError"
            /\ run'.features = {}
            /\ run'.options = NoOptions]_vars

C15_Witness ==
    /\ run.done /\ run.error = "StoreError"
    /\ run.env.write_fault = [stage |-> "insert", at |-> 2]
    /\ run.scraper_data = {"AAPL", "MSFT"}
    /\ BagCardinality(db["AAPL"].rows) >= 1
    /\ db["MSFT"].exists /\ db["MSFT"].rows = EmptyBag

----
\* The feature builder claims

\* C16: in _build_features an empty bar table, a missing DATE column or an
\* indicator without values for a series too short only affects that
\* instrument: it is skipped, or keeps its table with unset values, and a
\* diagnostic is emitted for it; nothing is raised and every other
\* instrument gets its feature table.
C16_PartialErrorsAreLocal ==
    fb.name = "_build_features" =>
        /\ ~fb.raised
        /\ \A t \in DOMAIN fb.data :
              IF SkippedFrame(fb.data[t])
              THEN t \notin DOMAIN fb.features /\ t \in fb.printed
              ELSE /\ t \in DOMAIN fb.features
                   /\ fb.features[t].nrows >= 1
                   /\ fb.features[t].dead # {} => t \in fb.printed

\* C17 (as claimed): for every bar table and options the table of
\* build_features has exactly one row per timestamp in the union of the
\* timestamps of the indicator tables.
C17_RowPerTimestamp ==
    fb.name = "build_features" =>
        /\ fb.dates = fb.timestamps
        /\ fb.nrows = Cardinality(fb.timestamps)

DistinctDates(rows) ==
    \A i \in 1..Len(rows), j \in 1..Len(rows) : rows[i].DATE = rows[j].DATE => i = j

\* C17 (amended): the same for every bar table whose timestamps are
\* distinct; the rows of the warm-up periods are kept, with unset cells.
C17_RowPerDistinctTimestamp ==
    (fb.name = "build_features" /\ DistinctDates(fb.rows)) =>
        /\ fb.dates = fb.timestamps
        /\ fb.nrows = Cardinality(fb.timestamps)
        /\ fb.nrows = Len(fb.rows)

C17_Witness ==
    /\ fb.name = "build_features" /\ DistinctDates(fb.rows)
    /\ Len(fb.rows) = MaxBars /\ fb.nrows = MaxBars
    /\ fb.unset = MaxBars
    /\ fb.options.ma_windows = <<1, 3>>
    /\ \E i \in 1..(MaxBars - 1) : fb.rows[i].DATE > fb.rows[i + 1].DATE

----
\* The estimator claims

Called == ab.name = "calculate_alpha_beta"

\* C18: calculate_alpha_beta returns None, without raising, whenever the
\* overlap of the two return series has fewer than 10 observations.
C18_NullBelowTenBars ==
    (Called /\ ab.overlap < 10) => ab.result.null /\ ~ab.raised

C18_Witness ==
    /\ Called /\ ab.overlap = 5
    /\ ab.portfolio /\ ab.in.have = "ok" /\ ab.in.date_range.given /\ ~ab.var_zero
    /\ ab.estimate.kind = "n"
    /\ ab.result.null

\* C19: for every non-null result on an overlap of at least 30 observations
\* n_bars_used = max(30, min(overlap, required_n)), so that
\* 30 <= n_bars_used <= overlap, and n_bars_used = 30 on an overlap of 30.
C19_BarsClamped ==
    (Called /\ ~ab.result.null /\ ab.overlap >= 30) =>
        /\ ab.result.n_bars_used = Max(30, Min(ab.overlap, ab.result.required_n))
        /\ 30 <= ab.result.n_bars_used /\ ab.result.n_bars_used <= ab.overlap
        /\ ab.overlap = 30 => ab.result.n_bars_used = 30
        /\ ab.result.used = ab.result.n_bars_used

C19_Witness ==
    /\ Called /\ ~ab.result.null
    /\ ab.overlap = 32 /\ ab.result.required_n = 31 /\ ab.result.n_bars_used = 31

\* C20: on an overlap of 10 to 29 observations calculate_alpha_beta proceeds
\* and returns a result whose n_bars_used is the number of observations
\* the final regression was computed on, at most the overlap and below 30.
C20_ShortOverlapBarsUsed ==
    (Called /\ ab.overlap >= 10 /\ ab.overlap < 30
        /\ ab.portfolio /\ ab.in.have = "ok" /\ ~ab.var_zero
        /\ ab.estimate.kind # "nonfinite") =>
        /\ ~ab.result.null
        /\ ab.result.n_bars_used = ab.result.used
        /\ ab.result.n_bars_used <= ab.overlap
        /\ ab.result.n_bars_used < 30

\* C21: with a benchmark of variance exactly 0 over the overlap
\* calculate_alpha_beta returns None, raises nothing, and never reaches the
\* division by the variance.
C21_ZeroVarianceIsNull ==
    (Called /\ ab.in.stats.finite /\ ab.in.stats.sigma_m = 0) =>
        ab.result.null /\ ~ab.raised /\ ~ab.zero_division

C21_Witness ==
    /\ Called /\ ab.portfolio /\ ab.in.have = "ok"
    /\ ab.in.stats.finite /\ ab.in.stats.sigma_m = 0
    /\ ab.overlap >= 30
    /\ ab.result.null /\ ab.result.printed = "Benchmark variance is 0"

\* the result of the call of this state made again with another tolerance
WithTolerance(t) ==
    calculate_alpha_beta(ab, [ab.in EXCEPT !.error_tolerance = t])

\* C22 as claimed: for fixed input series required_n strictly decreases as
\* the error tolerance increases.
C22_RequiredStrictlyDecreases ==
    (Called /\ ~ab.result.null) =>
        \A t \in Tolerances :
            t > ab.in.error_tolerance =>
                /\ ~WithTolerance(t).null
                /\ ab.result.required_n > WithTolerance(t).required_n

\* C22: for fixed input series and tolerances t1 < t2 whose target standard
\* error is at least 1e-9, required_n(t1) >= required_n(t2); below 1e-9
\* required_n is the length of the overlap.
C22_RequiredNeverIncreases ==
    (Called /\ ~ab.result.null) =>
        /\ ab.estimate.kind = "all" => ab.result.required_n = ab.overlap
        /\ ab.estimate.kind = "n" =>
            \A t \in Tolerances :
                t > ab.in.error_tolerance =>
                    /\ ~WithTolerance(t).null
                    /\ ab.result.required_n >= WithTolerance(t).required_n

C22_Witness ==
    /\ Called /\ ~ab.result.null /\ ab.overlap >= 30
    /\ ab.in.error_tolerance = 20 /\ ab.result.required_n = 196
    /\ WithTolerance(45).required_n = 38 /\ WithTolerance(50).required_n = 31

\* C23: beta and alpha are computed on exactly the n_bars_used most recent
\* observations of the overlap, never on the earliest ones, and beta_full
\* on the whole overlap.
C23_TrailingWindow ==
    (Called /\ ~ab.result.null) =>
        /\ Cardinality(ab.result.full) = ab.overlap
        /\ ab.result.window = LastN(ab.result.full, ab.result.n_bars_used)
        /\ Cardinality(ab.result.window) = ab.result.n_bars_used
        /\ ab.result.n_bars_used < ab.overlap =>
               ab.result.window # FirstN(ab.result.full, ab.result.n_bars_used)

\* C24: calculate_alpha_beta returns None, fetching nothing, as long as no
\* run_backtest has succeeded on the instance; a result is returned only
\* after a successful run_backtest.
C24_NoResultBeforeBacktest ==
    Called =>
        /\ ab.ok_runs = 0 => ab.result.null /\ ab.fetched = 0 /\ ~ab.raised
        /\ ~ab.result.null => ab.ok_runs > 0

C24_Witness ==
    /\ Called /\ ab.ok_runs = 0 /\ ab.failed_runs > 0
    /\ ab.data = "loaded" /\ ab.in.have = "ok" /\ ab.overlap >= 30
    /\ ~ab.var_zero /\ ab.estimate.kind = "n"
    /\ ab.result.null /\ ab.result.printed = "No portfolio available"

----
\* The options store claims

\* the contracts of a batch are all in the table the batch is written to
AllPresent ==
    /\ odb.op.batch # <<>>
    /\ \A i \in 1..Len(odb.op.batch) :
        Contract(odb.op.batch[i]) \in {Contract(x) : x \in DOMAIN odb.op.before.rows}

\* C25: writing options data whose contracts are all in the table already
\* adds no row and changes no stored row, and writing the same options
\* data twice leaves the tables as writing it once.
C25_OptionsNeverRewritten ==
    odb.op.name = "write_options" =>
        /\ AllPresent => odb.tables[odb.op.table] = odb.op.before
        /\ odb.op.again = odb.tables

C25_Witness ==
    /\ odb.op.name = "write_options" /\ AllPresent
    /\ Len(odb.op.batch) = MaxContracts
    /\ \E x \in DOMAIN odb.op.before.rows :
          /\ Contract(x) = Contract(odb.op.batch[1])
          /\ x.lastPrice # odb.op.batch[1].lastPrice
          /\ x.FETCH_DATE # odb.op.batch[1].FETCH_DATE

\* the pairs of tickers that differ only by the case of their letters
CaseVariants == {<<"aapl", "AAPL">>, <<"AAPL", "aapl">>}

\* C26: the three store functions address the same table for every case
\* variant of a ticker: coverage and reads under one spelling equal those
\* under the other, and a non-empty batch written under one spelling is
\* covered under the other
C26_CaseNormalized ==
    /\ \A p \in CaseVariants, iv \in Intervals :
          /\ get_ticker_date_range(db, p[1], iv) = get_ticker_date_range(db, p[2], iv)
          /\ \A s \in DateArgs, e \in DateArgs :
                read_by_date(db, p[1], s, e, iv) = read_by_date(db, p[2], s, e, iv)
    /\ op.name = "write" /\ op.n > 0 =>
          \A p \in CaseVariants :
              op.ticker = p[1] =>
                  /\ get_ticker_date_range(db, p[2], op.interval) # <<None, None>>
                  /\ BagToSet(read_by_date(db, p[2], None, None, op.interval)) # {}

\* a batch written under "aapl" is covered under "AAPL"
C26_Witness ==
    /\ op.name = "write" /\ op.ticker = "aapl" /\ op.n > 0
    /\ get_ticker_date_range(db, "AAPL", op.interval) # <<None, None>>
    /\ BagToSet(read_by_date(db, "AAPL", None, None, op.interval)) # {}

\* what coverage and reads return for one instrument and interval
Answers(d, ticker, interval) ==
    [range |-> get_ticker_date_range(d, ticker, interval),
     read |-> [s \in DateArgs, e \in DateArgs |->
                  read_by_date(d, ticker, s, e, interval)]]

\* an interval without rows has no coverage, whatever else the table holds
EmptyIntervalUncovered ==
    \A t \in Tickers, iv \in Intervals :
        (\A r \in DOMAIN db[Upper(t)].rows : r.INTERVAL # iv) =>
            get_ticker_date_range(db, t, iv) = <<None, None>>

\* C29 as claimed: a write with interval argument A never changes what
\* coverage and reads return for another interval B of the instrument
C29_IsolatedFromArgument ==
    [][op'.name = "write" =>
          \A iv \in Intervals \ {op'.arg} :
              Answers(db', op'.ticker, iv) = Answers(db, op'.ticker, iv)]_vars

\* C29 (amended): a write never changes what coverage and reads return for
\* an interval other than the one its rows carry (the frame's INTERVAL
\* column when it has one, else the interval argument), and coverage of an
\* interval without rows is (None, None) even when the table holds rows of
\* another interval
C29_IntervalsIsolated ==
    /\ []EmptyIntervalUncovered
    /\ [][op'.name = "write" =>
             \A iv \in Intervals \ {op'.interval} :
                 Answers(db', op'.ticker, iv) = Answers(db, op'.ticker, iv)]_vars

\* a write left a stored bar of another interval at one of its timestamps
C29_Witness ==
    /\ op.name = "write" /\ op.n > 0
    /\ \E r \in DOMAIN db[op.table].rows, s \in DOMAIN db[op.table].rows :
          r.DATE = s.DATE /\ r.INTERVAL = op.interval /\ s.INTERVAL # op.interval

\* the run wrote a batch and the insert of its k-th frame raised
FailsAt(k) ==
    /\ IsRun /\ run'.fetch_calls = 1
    /\ run'.env.write_fault = [stage |-> "insert", at |-> k]
    /\ k <= Len(run'.batch)

\* C28: when the write of the k-th instrument of a batch raises, the bars of
\* instruments 1..k-1 are in the store, covered and read back, and no row of
\* the k-th and later instruments is written
C28_CommitPerInstrument ==
    [][\A k \in 1..2 :
          FailsAt(k) =>
              /\ run'.raised
              /\ \A i \in 1..(k - 1) :
                    /\ get_ticker_date_range(db', run'.batch[i], DefaultInterval)
                           # <<None, None>>
                    /\ \A row \in run'.data[run'.batch[i]].rows :
                          \E x \in BagToSet(read_by_date(db', run'.batch[i], None, None,
                                                         DefaultInterval)) :
                              x.DATE = row.DATE /\ x.VAL = row.VAL
              /\ \A i \in k..Len(run'.batch) :
                    db'[Upper(run'.batch[i])].rows = db[Upper(run'.batch[i])].rows]_vars

\* the insert of MSFT, second of the batch, raised: AAPL's bars are covered
\* and read back, MSFT has no coverage
C28_Witness ==
    /\ run.done /\ run.raised /\ run.batch = <<"AAPL", "MSFT">>
    /\ run.env.write_fault = [stage |-> "insert", at |-> 2]
    /\ get_ticker_date_range(db, "AAPL", DefaultInterval) # <<None, None>>
    /\ BagToSet(read_by_date(db, "AAPL", None, None, DefaultInterval)) # {}
    /\ get_ticker_date_range(db, "MSFT", DefaultInterval) = <<None, None>>

\* C27 as claimed: the only files a call of _build_features leaves are the
\* <ticker>_features.csv of its tickers in its save_path, and none when the
\* save_path is not set
C27_OnlyConfiguredDestination ==
    fb.name = "_build_features" =>
        \A f \in fb.files :
            /\ fb.save_path # None
            /\ f.dir = fb.save_path
            /\ \E t \in DOMAIN fb.features : f.name = <<t, "_features.csv">>

\* the families that no configuration switches off
AlwaysEmitted == {"MA", "BB", "RSI", "MACD", "VOL", "ATR"}

\* the number of columns of a family in the tables of the last call, 0 when
\* the family was not appended
FamilyWidth(family) ==
    IF \E k \in 1..Len(fb.families) : fb.families[k] = family
    THEN fb.widths[CHOOSE k \in 1..Len(fb.families) : fb.families[k] = family]
    ELSE 0

\* C30: build_features always appends the moving-average, Bollinger, RSI,
\* MACD, volatility and ATR tables, each with columns; a window list passed
\* as None or empty gives the columns of the default list; RETURN and
\* LOG_RETURN are there exactly when they are switched on; the list of
\* tables to merge is never empty
C30_DefaultFamilies ==
    fb.name = "build_features" =>
        /\ \A family \in AlwaysEmitted : FamilyWidth(family) > 0
        /\ fb.options.ma_windows = <<>> => FamilyWidth("MA") = Len(DefaultMA)
        /\ fb.options.vol_windows = <<>> => FamilyWidth("VOL") = Len(DefaultVol)
        /\ (FamilyWidth("RETURN") > 0) = fb.options.returns
        /\ (FamilyWidth("LOG_RETURN") > 0) = fb.options.log_returns
        /\ Len(fb.families) =
              6 + (IF fb.options.returns THEN 1 ELSE 0)
                + (IF fb.options.log_returns THEN 1 ELSE 0)
        /\ fb.families # <<>>

\* both returns switched off and two window lists left empty: the six
\* families are merged, with the default columns
C30_Witness ==
    /\ fb.name = "build_features"
    /\ ~fb.options.returns /\ ~fb.options.log_returns
    /\ fb.options.ma_windows = <<>> /\ fb.options.vol_windows = <<>>
    /\ Len(fb.families) = 6
    /\ FamilyWidth("MA") = 3 /\ FamilyWidth("VOL") = 1

====
